---- MODULE Spec2Model ----
(***************************************************************************)
(* Model of tf-mdp's Markov recurrent model: the simulation cell MRMCell   *)
(* (src/tfmdp/train/mrm.py) and the rollout driver MarkovRecurrentModel    *)
(* that unrolls it over a horizon.                                         *)
(*                                                                         *)
(* A tensor is a record [dtype, val].  A [batch, n] tensor has             *)
(* val \in [Rows -> Seq(Int)] (one row vector per batch row), a [batch]    *)
(* tensor has val \in [Rows -> Int], and a [batch, horizon, n] tensor has  *)
(* val \in [Rows -> Seq(Seq(Int))].  Floating-point values are modelled by *)
(* integers; a bool tensor holds 0 (False) and 1 (True).                   *)
(***************************************************************************)
EXTENDS Integers, Sequences, FiniteSets, TLC

\* ---------------------------------------------------------------- bounds
MaxBatch == 2
MaxHorizon == 3
MaxStateVars == 2
MaxIntermVars == 2
MaxCalls == 2

\* ------------------------------------------------------ program constants
\* every fluent of the test domain (Navigation-v2) has shape (2,)
FluentWidth == 2

DtypeOrder == <<"float32", "int32", "bool">>

Dtypes == {DtypeOrder[n] : n \in 1..Len(DtypeOrder)}

\* the native dtype of the k-th fluent of a group whose first fluent has dtype number rot
DtypeAt(rot, k) == DtypeOrder[((rot + k - 1) % Len(DtypeOrder)) + 1]
ReparameterizationType == {"FULLY_REPARAMETERIZED", "NOT_REPARAMETERIZED"}

\* ---------------------------------------------------------------- helpers
RECURSIVE SumSeq(_)
SumSeq(s) == IF s = <<>> THEN 0 ELSE s[1] + SumSeq(Tail(s))

RECURSIVE Flatten(_)
Flatten(ss) == IF ss = <<>> THEN <<>> ELSE ss[1] \o Flatten(Tail(ss))

Rows(b) == 1..b

Shapes(n) == [k \in 1..n |-> <<FluentWidth>>]

\* sum over the tensors of a tuple of their first-column value at row r
RowSum(tensors, r) == SumSeq([k \in 1..Len(tensors) |-> tensors[k].val[r][1]])

\* -------------------------------------------------------- fluent names
StateName(i) == <<"state", i>>
NextStateName(i) == <<"next_state", i>>
ActionName(j) == <<"action", j>>
IntermName(k) == <<"interm", k>>

\* ------------------------------------------- tensorflow primitives used
\* tf.split(input, [1, 1], axis=1)
tf_split(input) ==
    << [dtype |-> input.dtype, val |-> [r \in DOMAIN input.val |-> <<input.val[r][1]>>]],
       [dtype |-> input.dtype, val |-> [r \in DOMAIN input.val |-> <<input.val[r][2]>>]] >>

\* tf.concat(values, axis=1): an empty list of values is rejected
tf_concat(values) ==
    IF values = <<>>
    THEN [ok |-> FALSE, tensor |-> <<>>]
    ELSE [ok |-> TRUE,
          tensor |-> [dtype |-> values[1].dtype,
                      val |-> [r \in DOMAIN values[1].val |->
                                 Flatten([k \in 1..Len(values) |-> values[k].val[r]])]]]

\* tf.reduce_sum(t, axis=1): [batch, n] -> [batch]
tf_reduce_sum(t) == [dtype |-> t.dtype, val |-> [r \in DOMAIN t.val |-> SumSeq(t.val[r])]]

\* tf.expand_dims(t, -1): [batch] -> [batch, 1]
tf_expand_dims(t) == [dtype |-> t.dtype, val |-> [r \in DOMAIN t.val |-> <<t.val[r]>>]]

\* elementwise a + b of two [batch] tensors
tf_add(a, b) == [dtype |-> a.dtype, val |-> [r \in DOMAIN a.val |-> a.val[r] + b.val[r]]]

\* tf.cast(t, tf.float32): the numeric value is kept (False -> 0.0, True -> 1.0)
tf_cast_float32(t) == [dtype |-> "float32", val |-> t.val]

\* ------------------------------------------------- external collaborators
\* rddl2tf Compiler: static metadata plus the native dtype of each of its
\* fluents (float-, integer- and boolean-valued fluents may be mixed)
Compilers ==
    { [state_size |-> Shapes(ns), action_size |-> Shapes(1), interm_size |-> Shapes(ni),
       state_dtype |-> [i \in 1..ns |-> DtypeAt(rot, i)],
       interm_dtype |-> [k \in 1..ni |-> DtypeAt(rot + 1, k)]] :
         ns \in 1..MaxStateVars, ni \in 0..MaxIntermVars, rot \in 0..(Len(DtypeOrder) - 1) }

\* DeepReactivePolicy: one tensor per action fluent, of the policy's dtype
Policies(compiler) == { [action_size |-> compiler.action_size, dtype |-> d] : d \in Dtypes }

\* Compiler.compile_initial_state(batch_size); a non-positive batch size
\* either raises inside the compiler or yields tensors without rows
compile_initial_state(compiler, batch_size, fail) ==
    IF fail
    THEN [ok |-> FALSE, state |-> <<>>]
    ELSE [ok |-> TRUE,
          state |-> [i \in 1..Len(compiler.state_size) |->
                       [dtype |-> compiler.state_dtype[i],
                        val |-> [r \in Rows(batch_size) |->
                                   [w \in 1..compiler.state_size[i][1] |-> (r + i + w) % 2]]]]]

\* DeepReactivePolicy.__call__(state, input)
policy_call(policy, state, input) ==
    [j \in 1..Len(policy.action_size) |->
       [dtype |-> policy.dtype,
        val |-> [r \in DOMAIN input.val |->
                   [w \in 1..policy.action_size[j][1] |->
                      (RowSum(state, r) + input.val[r][1] + input.val[r][2] + j + w) % 2]]]]

\* Compiler.transition_scope(state, action): fluent name -> value
transition_scope(state, action) ==
    [n \in {StateName(i) : i \in 1..Len(state)} \cup {ActionName(j) : j \in 1..Len(action)} |->
       IF n[1] = "state" THEN state[n[2]] ELSE action[n[2]]]

\* the draw of one stochastic fluent from the scope and the step's noise
Sample(scope, ns, na, noise, dtype, width, batch_size, salt) ==
    LET base(r) == SumSeq([i \in 1..ns |-> scope[StateName(i)].val[r][1]])
                   + SumSeq([j \in 1..na |-> scope[ActionName(j)].val[r][1]])
                   + noise
    IN  << [dtype |-> dtype,
            val |-> [r \in Rows(batch_size) |-> [w \in 1..width |-> (base(r) + salt + w) % 2]]],
           [dtype |-> "float32",
            val |-> [r \in Rows(batch_size) |-> << 0 - (salt + ((base(r) + r) % 2)) >>]] >>

\* Compiler.compile_probabilistic_cpfs(scope, batch_size):
\* (interm_fluents, next_state_fluents), each a list of (name, fluent, log_prob)
compile_probabilistic_cpfs(compiler, scope, batch_size, noise, fail) ==
    LET ns == Len(compiler.state_size)
        na == Len(compiler.action_size)
        ni == Len(compiler.interm_size)
        draw(dtype, width, salt) == Sample(scope, ns, na, noise, dtype, width, batch_size, salt)
    IN  IF fail
        THEN [ok |-> FALSE, interm_fluents |-> <<>>, next_state_fluents |-> <<>>]
        ELSE [ok |-> TRUE,
              interm_fluents |->
                [k \in 1..ni |->
                   LET d == draw(compiler.interm_dtype[k], compiler.interm_size[k][1], k)
                   IN  <<IntermName(k), d[1], d[2]>>],
              next_state_fluents |->
                [i \in 1..ns |->
                   LET d == draw(compiler.state_dtype[i], compiler.state_size[i][1], ni + i)
                   IN  <<NextStateName(i), d[1], d[2]>>]]

\* Compiler.compile_reward(scope): the reward reads the next-state and the
\* action fluents of the scope; a fluent missing from the scope is an error
compile_reward(compiler, scope) ==
    LET ns == Len(compiler.state_size)
        na == Len(compiler.action_size)
        needed == {NextStateName(i) : i \in 1..ns} \cup {ActionName(j) : j \in 1..na}
        rows == DOMAIN scope[ActionName(1)].val
    IN  IF ~(needed \subseteq DOMAIN scope)
        THEN [ok |-> FALSE, tensor |-> <<>>]
        ELSE [ok |-> TRUE,
              tensor |-> [dtype |-> "float32",
                          val |-> [r \in rows |->
                                     << 0 - (2 * SumSeq([i \in 1..ns |-> scope[NextStateName(i)].val[r][1]])
                                             + SumSeq([j \in 1..na |-> scope[ActionName(j)].val[r][1]])) >>]]]

\* ------------------------------------------------------------- MRMCell
\* MRMCell.__init__
MRMCell_init(compiler, policy, batch_size) ==
    [compiler |-> compiler, policy |-> policy, batch_size |-> batch_size]

state_size(cell) == cell.compiler.state_size

action_size(cell) == cell.compiler.action_size

interm_size(cell) == cell.compiler.interm_size

output_size_Swapped(cell) == <<state_size(cell), interm_size(cell), action_size(cell), 1, 1>>

output_size(cell) == <<state_size(cell), action_size(cell), interm_size(cell), 1, 1>>

\* MRMCell.initial_state
initial_state(cell, fail) == compile_initial_state(cell.compiler, cell.batch_size, fail)

\* MRMCell._tensors
_tensors(fluents) == [k \in 1..Len(fluents) |-> fluents[k][2]]

\* MRMCell._dtype
_dtype(tensor) == IF tensor.dtype # "float32" THEN tf_cast_float32(tensor) ELSE tensor

\* MRMCell._output
_output(fluents) == [k \in 1..Len(fluents) |-> _dtype(_tensors(fluents)[k])]

\* MRMCell._log_prob
_log_prob_NextOnly(interm_fluents, next_state_fluents) ==
    LET next_state_log_probs == [k \in 1..Len(next_state_fluents) |-> next_state_fluents[k][3]]
        next_cat == tf_concat(next_state_log_probs)
    IN  IF ~next_cat.ok
        THEN [ok |-> FALSE, tensor |-> <<>>]
        ELSE [ok |-> TRUE, tensor |-> tf_expand_dims(tf_reduce_sum(next_cat.tensor))]

_log_prob(interm_fluents, next_state_fluents) ==
    LET interm_log_probs == [k \in 1..Len(interm_fluents) |-> interm_fluents[k][3]]
        interm_cat == tf_concat(interm_log_probs)
        next_state_log_probs == [k \in 1..Len(next_state_fluents) |-> next_state_fluents[k][3]]
        next_cat == tf_concat(next_state_log_probs)
    IN  IF ~interm_cat.ok \/ ~next_cat.ok
        THEN [ok |-> FALSE, tensor |-> <<>>]
        ELSE [ok |-> TRUE,
              tensor |-> tf_expand_dims(tf_add(tf_reduce_sum(interm_cat.tensor),
                                               tf_reduce_sum(next_cat.tensor)))]

\* dict.update
scope_update(scope, new) == [n \in DOMAIN scope \cup DOMAIN new |-> IF n \in DOMAIN new THEN new[n] ELSE scope[n]]

\* {name: fluent for name, fluent, _ in next_state_fluents}
next_state_scope_LogProbs(next_state_fluents) ==
    [n \in {next_state_fluents[k][1] : k \in 1..Len(next_state_fluents)} |->
       (CHOOSE f \in {next_state_fluents[k] : k \in 1..Len(next_state_fluents)} : f[1] = n)[3]]

next_state_scope(next_state_fluents) ==
    [n \in {next_state_fluents[k][1] : k \in 1..Len(next_state_fluents)} |->
       (CHOOSE f \in {next_state_fluents[k] : k \in 1..Len(next_state_fluents)} : f[1] = n)[2]]

\* MRMCell.__call__ with the collaborator calls it makes, in order
MRMCell_call_StaleCarry(cell, input, state, noise, fail) ==
    LET split == tf_split(input)
        action == policy_call(cell.policy, state, input)
        scope0 == transition_scope(state, action)
        cpfs == compile_probabilistic_cpfs(cell.compiler, scope0, cell.batch_size, noise, fail)
        lp == _log_prob(cpfs.interm_fluents, cpfs.next_state_fluents)
        scope1 == scope_update(scope0, next_state_scope(cpfs.next_state_fluents))
        reward == compile_reward(cell.compiler, scope1)
        interm_state == _output(cpfs.interm_fluents)
        next_state == _output(cpfs.next_state_fluents)
        calls0 == << [fn |-> "policy", args |-> <<state, input>>, ret |-> action],
                     [fn |-> "transition_scope", args |-> <<state, action>>, ret |-> scope0],
                     [fn |-> "compile_probabilistic_cpfs", args |-> <<scope0, cell.batch_size>>,
                      ret |-> cpfs] >>
        calls1 == calls0 \o << [fn |-> "compile_reward", args |-> <<scope1>>, ret |-> reward] >>
    IN  IF ~cpfs.ok \/ ~lp.ok
        THEN [ok |-> FALSE, output |-> <<>>, next_state |-> <<>>, calls |-> calls0]
        ELSE IF ~reward.ok
        THEN [ok |-> FALSE, output |-> <<>>, next_state |-> <<>>, calls |-> calls1]
        ELSE [ok |-> TRUE,
              output |-> <<next_state, action, interm_state, reward.tensor, lp.tensor>>,
              next_state |-> state,
              calls |-> calls1]

MRMCell_call(cell, input, state, noise, fail) ==
    LET split == tf_split(input)
        timestep == split[1]
        stop_flag == split[2]
        \* action
        action == policy_call(cell.policy, state, input)
        \* next state
        scope0 == transition_scope(state, action)
        cpfs == compile_probabilistic_cpfs(cell.compiler, scope0, cell.batch_size, noise, fail)
        interm_fluents == cpfs.interm_fluents
        next_state_fluents == cpfs.next_state_fluents
        \* log_probs
        log_prob == _log_prob(interm_fluents, next_state_fluents)
        \* reward
        scope1 == scope_update(scope0, next_state_scope(next_state_fluents))
        reward == compile_reward(cell.compiler, scope1)
        \* outputs
        interm_state == _output(interm_fluents)
        next_state == _output(next_state_fluents)
        output == <<next_state, action, interm_state, reward.tensor, log_prob.tensor>>
        calls0 == << [fn |-> "policy", args |-> <<state, input>>, ret |-> action],
                     [fn |-> "transition_scope", args |-> <<state, action>>, ret |-> scope0],
                     [fn |-> "compile_probabilistic_cpfs", args |-> <<scope0, cell.batch_size>>,
                      ret |-> cpfs] >>
        calls1 == calls0 \o << [fn |-> "compile_reward", args |-> <<scope1>>, ret |-> reward] >>
    IN  IF ~cpfs.ok \/ ~log_prob.ok
        THEN [ok |-> FALSE, output |-> <<>>, next_state |-> <<>>, calls |-> calls0]
        ELSE IF ~reward.ok
        THEN [ok |-> FALSE, output |-> <<>>, next_state |-> <<>>, calls |-> calls1]
        ELSE [ok |-> TRUE, output |-> output, next_state |-> next_state, calls |-> calls1]

\* ------------------------------------------------ MarkovRecurrentModel
\* horizon axis length of a [batch, horizon, n] tensor
Horizon(t3) == Len(t3.val[CHOOSE r \in DOMAIN t3.val : TRUE])

\* MarkovRecurrentModel.timesteps(horizon): [batch, horizon, 1]
timesteps_CountUp(batch_size, horizon) ==
    [dtype |-> "float32",
     val |-> [r \in Rows(batch_size) |-> [t \in 1..horizon |-> <<t - 1>>]]]

timesteps(batch_size, horizon) ==
    [dtype |-> "float32",
     val |-> [r \in Rows(batch_size) |-> [t \in 1..horizon |-> <<horizon - t>>]]]

\* MarkovRecurrentModel.stop_flags(horizon, reparam_type): [batch, horizon, 1]
stop_flags_Inverted(batch_size, horizon, reparam_type) ==
    [dtype |-> "float32",
     val |-> [r \in Rows(batch_size) |->
                [t \in 1..horizon |->
                   IF reparam_type = "FULLY_REPARAMETERIZED" THEN <<1>> ELSE <<0>>]]]

stop_flags(batch_size, horizon, reparam_type) ==
    [dtype |-> "float32",
     val |-> [r \in Rows(batch_size) |->
                [t \in 1..horizon |->
                   IF reparam_type = "FULLY_REPARAMETERIZED" THEN <<0>> ELSE <<1>>]]]

\* MarkovRecurrentModel.inputs(timesteps, stop_flags): [batch, horizon, 2]
inputs_of(ts, fl) ==
    [dtype |-> ts.dtype,
     val |-> [r \in DOMAIN ts.val |->
                [t \in 1..Len(ts.val[r]) |-> ts.val[r][t] \o fl.val[r][t]]]]

\* inputs[:, t, :]
slice(t3, t) == [dtype |-> t3.dtype, val |-> [r \in DOMAIN t3.val |-> t3.val[r][t]]]

\* the sequential unroll of the cell over the horizon; one record per cell
\* call.  Each call's result is bound as a fully evaluated value (v = v) before
\* it is fed to the next call.
RECURSIVE unroll(_, _, _, _, _)
unroll(cell, state, inputs, noises, t) ==
    IF t > Horizon(inputs)
    THEN <<>>
    ELSE CHOOSE steps \in
            { << [input |-> slice(inputs, t), state |-> state, res |-> res] >>
              \o (IF res.ok THEN unroll(cell, res.next_state, inputs, noises, t + 1) ELSE <<>>) :
                res \in {v \in {MRMCell_call(cell, slice(inputs, t), state, noises[t], FALSE)} :
                            v = v} } : TRUE

\* stack the per-step tensors along a new horizon axis
stack(ts) ==
    [dtype |-> ts[1].dtype,
     val |-> [r \in DOMAIN ts[1].val |-> [t \in 1..Len(ts) |-> ts[t].val[r]]]]

\* component c of the step outputs, stacked tensor by tensor
stack_tuple(steps, c) ==
    [k \in 1..Len(steps[1].res.output[c]) |->
       stack([t \in 1..Len(steps) |-> steps[t].res.output[c][k]])]

\* MarkovRecurrentModel.trajectory(initial_state, inputs)
trajectory(cell, initial, inputs, noises) ==
    LET steps == unroll(cell, initial, inputs, noises, 1)
    IN  IF \E t \in 1..Len(steps) : ~steps[t].res.ok
        THEN [ok |-> FALSE, steps |-> steps]
        ELSE [ok |-> TRUE,
              steps |-> steps,
              initial_state |-> initial,
              states |-> stack_tuple(steps, 1),
              actions |-> stack_tuple(steps, 2),
              interms |-> stack_tuple(steps, 3),
              rewards |-> stack([t \in 1..Len(steps) |-> steps[t].res.output[4]]),
              log_probs |-> stack([t \in 1..Len(steps) |-> steps[t].res.output[5]])]

\* MarkovRecurrentModel.reward_to_go(rewards): suffix sums along the horizon
reward_to_go_Prefix(rewards) ==
    [dtype |-> rewards.dtype,
     val |-> [r \in DOMAIN rewards.val |->
                LET H == Len(rewards.val[r])
                    col == [t \in 1..H |-> rewards.val[r][t][1]]
                IN  [t \in 1..H |-> << SumSeq(SubSeq(col, 1, t)) >>]]]

reward_to_go(rewards) ==
    [dtype |-> rewards.dtype,
     val |-> [r \in DOMAIN rewards.val |->
                LET H == Len(rewards.val[r])
                    col == [t \in 1..H |-> rewards.val[r][t][1]]
                IN  [t \in 1..H |-> << SumSeq(SubSeq(col, t, H)) >>]]]

\* ------------------------------------------- PolicyOptimizationPlanner
\* A JSON text is a sequence of tokens; a planner configuration is a
\* function from its keys to numbers.
ConfigKeys == <<"batch_size", "horizon">>

MaxConfigValue == 1

Configs ==
    UNION { [ks -> 0..MaxConfigValue] : ks \in SUBSET {ConfigKeys[n] : n \in 1..Len(ConfigKeys)} }

\* the members of a JSON object for the keys of config taken in the order keys
RECURSIVE json_members(_, _)
json_members(config, keys) ==
    IF keys = <<>>
    THEN <<>>
    ELSE LET rest == json_members(config, Tail(keys))
         IN  IF keys[1] \notin DOMAIN config
             THEN rest
             ELSE <<keys[1], ":", config[keys[1]]>>
                  \o (IF rest = <<>> THEN <<>> ELSE <<",">> \o rest)

json_encode(config, keys) == <<"{">> \o json_members(config, keys) \o <<"}">>

\* json.dumps(config)
json_dumps(config) == json_encode(config, ConfigKeys)

\* the valid JSON texts of the configurations, in either key order
JsonTexts ==
    {json_encode(c, ConfigKeys) : c \in Configs}
    \cup {json_encode(c, <<ConfigKeys[2], ConfigKeys[1]>>) : c \in Configs}

RECURSIVE json_parse_members(_)
json_parse_members(tokens) ==
    IF tokens = <<>>
    THEN <<>>
    ELSE LET rest == IF Len(tokens) > 3 THEN SubSeq(tokens, 5, Len(tokens)) ELSE <<>>
         IN  json_parse_members(rest) @@ (tokens[1] :> tokens[3])

\* json.loads(text)
json_loads(text) == json_parse_members(SubSeq(text, 2, Len(text) - 1))

\* Python values returned by the planner's methods
PyStr(tokens) == [type |-> "str", value |-> tokens]

PyNone == [type |-> "NoneType", value |-> <<>>]

\* the concrete planner classes derived from the abstract base
PlannerClasses == {"PlannerA", "PlannerB"}

\* names bound at module level in planner.py, and in the body of from_json
planner_globals ==
    {"rddl2tf", "DeepReactivePolicy", "MarkovRecurrentModel", "PolicyLoss", "Optimizer",
     "Callback", "abc", "tf", "Callable", "Dict", "List", "Optional", "Sequence", "Callbacks",
     "PolicyOptimizationPlanner"}

from_json_locals == {"cls", "compiler", "json_config"}

\* PolicyOptimizationPlanner.__init__ (through the class cls)
PolicyOptimizationPlanner_init(cls, compiler, config) ==
    [class |-> cls, compiler |-> compiler, config |-> config]

\* PolicyOptimizationPlanner.to_json: the body is `pass`
to_json(planner) == PyNone

\* PolicyOptimizationPlanner.from_json: config = json.loads(json_string);
\* return cls(compiler, config).  A name that is bound neither locally nor
\* at module level raises NameError.
from_json(cls, compiler, json_config) ==
    IF "json" \notin from_json_locals \cup planner_globals
    THEN [ok |-> FALSE, error |-> "NameError: json", planner |-> <<>>]
    ELSE IF "json_string" \notin from_json_locals \cup planner_globals
    THEN [ok |-> FALSE, error |-> "NameError: json_string", planner |-> <<>>]
    ELSE [ok |-> TRUE, error |-> "",
          planner |-> PolicyOptimizationPlanner_init(cls, compiler, json_loads(json_config))]

\* ------------------------------------------------------------ the system
VARIABLES
    cell,       \* the MRMCell: its fields _compiler, _policy, _batch_size
    init,       \* result of cell.initial_state()
    last,       \* the last direct call of the cell: its arguments and result
    ncalls,     \* number of direct cell calls made
    tsteps,     \* result of timesteps(horizon)
    flags,      \* result of stop_flags(horizon, reparam_type)
    inputs,     \* result of inputs(timesteps, stop_flags)
    traj,       \* result of trajectory(initial_state, inputs)
    rtg,        \* result of reward_to_go(trajectory.rewards)
    ctor,       \* the cell as MRMCell.__init__ built it
    planner,    \* a planner object built through a concrete class
    to_json_ret,    \* the last call planner.to_json() and what it returned
    from_json_ret   \* the last call cls.from_json(compiler, json_config) and its result

vars == <<cell, init, last, ncalls, tsteps, flags, inputs, traj, rtg,
          ctor, planner, to_json_ret, from_json_ret>>

fixed == <<ctor, planner, to_json_ret, from_json_ret>>

rollout == <<init, last, ncalls, tsteps, flags, inputs, traj, rtg>>

Absent == [present |-> FALSE]

Init ==
    /\ \E compiler \in Compilers, batch_size \in -1..MaxBatch :
         \E policy \in Policies(compiler) :
            cell = MRMCell_init(compiler, policy, batch_size)
    /\ init = Absent
    /\ last = Absent
    /\ ncalls = 0
    /\ tsteps = Absent
    /\ flags = Absent
    /\ inputs = Absent
    /\ traj = Absent
    /\ rtg = Absent
    /\ ctor = cell
    /\ planner = Absent
    /\ to_json_ret = Absent
    /\ from_json_ret = Absent

\* cell.initial_state()
InitialState ==
    /\ ~init.present
    /\ \E fail \in BOOLEAN :
         /\ fail => cell.batch_size <= 0
         /\ init' = [present |-> TRUE, res |-> initial_state(cell, fail)]
    /\ UNCHANGED fixed
    /\ UNCHANGED <<cell, last, ncalls, tsteps, flags, inputs, traj, rtg>>

\* number of channels of a cell input: (timestep, stop_flag)
InputChannels == 2

\* the direct call, were it to store the input's trailing dimension as the
\* cell's batch size
Step_OverwritesBatchSize ==
    /\ init.present /\ init.res.ok
    /\ ~tsteps.present
    /\ ncalls < MaxCalls
    /\ \E noise \in 0..1, fail \in BOOLEAN, carried \in BOOLEAN :
         /\ fail => cell.batch_size <= 0
         /\ carried => (last.present /\ last.res.ok)
         /\ LET input == [dtype |-> "float32",
                          val |-> [r \in Rows(cell.batch_size) |-> <<MaxHorizon, 0>>]]
                state == IF carried THEN last.res.next_state ELSE init.res.state
            IN  last' = [present |-> TRUE, input |-> input, state |-> state,
                         noise |-> noise, fail |-> fail,
                         res |-> MRMCell_call(cell, input, state, noise, fail)]
    /\ ncalls' = ncalls + 1
    /\ UNCHANGED fixed
    /\ cell' = [cell EXCEPT !.batch_size = InputChannels]
    /\ UNCHANGED <<init, tsteps, flags, inputs, traj, rtg>>

\* a direct call cell(input, state) with timestep = horizon and stop_flag = 0,
\* on the initial state or on the state carried out of the previous call
Step ==
    /\ init.present /\ init.res.ok
    /\ ~tsteps.present
    /\ ncalls < MaxCalls
    /\ \E noise \in 0..1, fail \in BOOLEAN, carried \in BOOLEAN :
         /\ fail => cell.batch_size <= 0
         /\ carried => (last.present /\ last.res.ok)
         /\ LET input == [dtype |-> "float32",
                          val |-> [r \in Rows(cell.batch_size) |-> <<MaxHorizon, 0>>]]
                state == IF carried THEN last.res.next_state ELSE init.res.state
            IN  last' = [present |-> TRUE, input |-> input, state |-> state,
                         noise |-> noise, fail |-> fail,
                         res |-> MRMCell_call(cell, input, state, noise, fail)]
    /\ ncalls' = ncalls + 1
    /\ UNCHANGED fixed
    /\ UNCHANGED <<cell, init, tsteps, flags, inputs, traj, rtg>>

\* mrm.timesteps(horizon)
Timesteps ==
    /\ init.present /\ init.res.ok
    /\ ~last.present /\ ~tsteps.present
    /\ cell.batch_size > 0
    /\ \E horizon \in 0..MaxHorizon :
         /\ horizon > 0
         /\ tsteps' = [present |-> TRUE, horizon |-> horizon,
                       tensor |-> timesteps(cell.batch_size, horizon)]
    /\ UNCHANGED fixed
    /\ UNCHANGED <<cell, init, last, ncalls, flags, inputs, traj, rtg>>

\* mrm.stop_flags(horizon, reparam_type)
StopFlags ==
    /\ tsteps.present /\ ~flags.present
    /\ cell.batch_size > 0
    /\ \E horizon \in 0..MaxHorizon, reparam_type \in ReparameterizationType :
         /\ horizon > 0
         /\ flags' = [present |-> TRUE, horizon |-> horizon, reparam_type |-> reparam_type,
                      tensor |-> stop_flags(cell.batch_size, horizon, reparam_type)]
    /\ UNCHANGED fixed
    /\ UNCHANGED <<cell, init, last, ncalls, tsteps, inputs, traj, rtg>>

\* mrm.inputs(timesteps, stop_flags)
Inputs ==
    /\ tsteps.present /\ flags.present /\ ~inputs.present
    /\ tsteps.horizon = flags.horizon
    /\ inputs' = [present |-> TRUE, horizon |-> tsteps.horizon,
                  reparam_type |-> flags.reparam_type,
                  tensor |-> inputs_of(tsteps.tensor, flags.tensor)]
    /\ UNCHANGED fixed
    /\ UNCHANGED <<cell, init, last, ncalls, tsteps, flags, traj, rtg>>

\* mrm.trajectory(initial_state, inputs)
Trajectory ==
    /\ init.present /\ init.res.ok
    /\ inputs.present /\ ~traj.present
    /\ \E noises \in [1..inputs.horizon -> 0..1] :
         traj' = [present |-> TRUE,
                  res |-> trajectory(cell, init.res.state, inputs.tensor, noises)]
    /\ UNCHANGED fixed
    /\ UNCHANGED <<cell, init, last, ncalls, tsteps, flags, inputs, rtg>>

\* mrm.reward_to_go(trajectory.rewards)
RewardToGo ==
    /\ traj.present /\ traj.res.ok /\ ~rtg.present
    /\ rtg' = [present |-> TRUE, rewards |-> traj.res.rewards,
               tensor |-> reward_to_go(traj.res.rewards)]
    /\ UNCHANGED fixed
    /\ UNCHANGED <<cell, init, last, ncalls, tsteps, flags, inputs, traj>>

\* cls(compiler, config) for a concrete planner class
NewPlanner ==
    /\ ~planner.present
    /\ \E cls \in PlannerClasses, config \in Configs :
         planner' = [present |-> TRUE,
                     obj |-> PolicyOptimizationPlanner_init(cls, cell.compiler, config)]
    /\ UNCHANGED <<cell, ctor, to_json_ret, from_json_ret>>
    /\ UNCHANGED rollout

\* planner.to_json()
ToJson ==
    /\ planner.present /\ ~to_json_ret.present
    /\ to_json_ret' = [present |-> TRUE, ret |-> to_json(planner.obj)]
    /\ UNCHANGED <<cell, ctor, planner, from_json_ret>>
    /\ UNCHANGED rollout

\* cls.from_json(compiler, json_config) on a valid JSON text
FromJson ==
    /\ ~from_json_ret.present
    /\ \E cls \in PlannerClasses, json_config \in JsonTexts :
         from_json_ret' = [present |-> TRUE, cls |-> cls, compiler |-> cell.compiler,
                           json_config |-> json_config,
                           res |-> from_json(cls, cell.compiler, json_config)]
    /\ UNCHANGED <<cell, ctor, planner, to_json_ret>>
    /\ UNCHANGED rollout

Next ==
    \/ InitialState
    \/ Step
    \/ Timesteps
    \/ StopFlags
    \/ Inputs
    \/ Trajectory
    \/ RewardToGo

Spec == Init /\ [][Next]_vars

\* the planner on its own, next to a cell with one batch row
InitPlanner == Init /\ cell.batch_size = 1 /\ cell.policy.dtype = "float32"

NextPlanner ==
    \/ NewPlanner
    \/ ToJson
    \/ FromJson

SpecPlanner == InitPlanner /\ [][NextPlanner]_vars

TypeOK == ncalls \in 0..MaxCalls

\* ------------------------------------------------------------ properties
StepOf(x) == [input |-> x.input, state |-> x.state, res |-> x.res]

\* every cell call made so far: the direct one and those of the rollout
CellCalls ==
    (IF last.present THEN {StepOf(last)} ELSE {})
    \cup (IF traj.present
          THEN {StepOf(traj.res.steps[t]) : t \in 1..Len(traj.res.steps)}
          ELSE {})

CompletedSteps == {s \in CellCalls : s.res.ok}

\* what the collaborators returned to a completed step
PolicyRet(s) == s.res.calls[1].ret
CpfsRet(s) == s.res.calls[3].ret
RewardCall(s) == s.res.calls[4]

\* C1: a step returns (output, next_state) with output the 5-tuple
\* (next_state, action, interm_state, reward, log_prob), and the carried
\* next_state is the first component of output: the tensors normalized to
\* float32, not the raw fluent values.
C1_CarriedStateIsOutputNextState ==
    \A s \in CompletedSteps :
       /\ Len(s.res.output) = 5
       /\ s.res.next_state = s.res.output[1]
       /\ s.res.output[2] = PolicyRet(s)
       /\ s.res.output[4] = RewardCall(s).ret.tensor
       /\ Len(s.res.next_state) = Len(CpfsRet(s).next_state_fluents)
       /\ \A k \in 1..Len(s.res.next_state) :
            /\ s.res.next_state[k].dtype = "float32"
            /\ s.res.next_state[k].val = CpfsRet(s).next_state_fluents[k][2].val
       /\ Len(s.res.output[3]) = Len(CpfsRet(s).interm_fluents)
       /\ \A k \in 1..Len(s.res.output[3]) :
            s.res.output[3][k].val = CpfsRet(s).interm_fluents[k][2].val

C1_Witness ==
    /\ last.present /\ last.res.ok
    /\ cell.compiler.state_dtype[1] = "int32"
    /\ cell.batch_size = MaxBatch
    /\ last.res.next_state # last.state
    /\ \E k \in 1..Len(last.res.next_state) :
         last.res.next_state[k] # CpfsRet(last).next_state_fluents[k][2]

\* C2: a rollout calls the cell once per time index, in the order
\* 0, 1, ..., horizon-1: the first call gets the caller's initial state, call
\* t gets inputs[:, t, :], call t+1 gets the next_state of call t, and index
\* t of every stacked component is the output of call t.
C2_SequentialUnroll ==
    (traj.present /\ traj.res.ok) =>
       LET steps == traj.res.steps
           H == inputs.horizon
           R == Rows(cell.batch_size)
       IN  /\ Len(steps) = H
           /\ steps[1].state = init.res.state
           /\ traj.res.initial_state = init.res.state
           /\ \A t \in 1..H : steps[t].input = slice(inputs.tensor, t)
           /\ \A t \in 1..(H - 1) :
                /\ steps[t + 1].state = steps[t].res.next_state
                /\ \A k \in 1..Len(traj.res.states), r \in R :
                     steps[t + 1].state[k].val[r] = traj.res.states[k].val[r][t]
           /\ \A t \in 1..H, r \in R :
                /\ \A k \in 1..Len(traj.res.states) :
                     traj.res.states[k].val[r][t] = steps[t].res.output[1][k].val[r]
                /\ \A k \in 1..Len(traj.res.actions) :
                     traj.res.actions[k].val[r][t] = steps[t].res.output[2][k].val[r]
                /\ \A k \in 1..Len(traj.res.interms) :
                     traj.res.interms[k].val[r][t] = steps[t].res.output[3][k].val[r]
                /\ traj.res.rewards.val[r][t] = steps[t].res.output[4].val[r]
                /\ traj.res.log_probs.val[r][t] = steps[t].res.output[5].val[r]
           /\ \A k \in 1..Len(traj.res.states), r \in R : Len(traj.res.states[k].val[r]) = H
           /\ \A r \in R : Len(traj.res.rewards.val[r]) = H /\ Len(traj.res.log_probs.val[r]) = H

C2_Witness ==
    /\ traj.present /\ traj.res.ok
    /\ inputs.horizon = MaxHorizon
    /\ Len(traj.res.steps) = MaxHorizon
    /\ traj.res.steps[2].state # traj.res.steps[1].state
    /\ traj.res.steps[3].state # traj.res.steps[2].state

\* C3: the log_prob of a step is, per batch row, the sum of the
\* log-probabilities of all intermediate fluents plus the sum of those of all
\* next-state fluents the transition model returned, one value per row.
C3_LogProbIsSumOfFluentLogProbs ==
    \A s \in CompletedSteps :
       LET lp == s.res.output[5]
           interm == CpfsRet(s).interm_fluents
           next == CpfsRet(s).next_state_fluents
       IN  /\ DOMAIN lp.val = Rows(cell.batch_size)
           /\ \A r \in DOMAIN lp.val :
                /\ Len(lp.val[r]) = 1
                /\ lp.val[r][1] =
                     SumSeq([k \in 1..Len(interm) |-> SumSeq(interm[k][3].val[r])])
                     + SumSeq([i \in 1..Len(next) |-> SumSeq(next[i][3].val[r])])

C3_Witness ==
    /\ last.present /\ last.res.ok
    /\ Len(CpfsRet(last).interm_fluents) >= 2
    /\ Len(CpfsRet(last).next_state_fluents) >= 2
    /\ cell.batch_size >= 2
    /\ last.res.output[5].val[1] # last.res.output[5].val[2]

\* C4: within a step the policy acts on the pre-transition state, the scope
\* is built from (state, action), the fluents are sampled from that scope,
\* the scope is updated so that every next-state name maps to the value
\* sampled in this step, and only then is the reward evaluated, on the
\* updated scope.
C4_RewardAfterScopeUpdate ==
    \A s \in CompletedSteps :
       LET calls == s.res.calls
           scope0 == calls[2].ret
           next == CpfsRet(s).next_state_fluents
           scope1 == RewardCall(s).args[1]
       IN  /\ Len(calls) = 4
           /\ calls[1].fn = "policy" /\ calls[1].args = <<s.state, s.input>>
           /\ calls[2].fn = "transition_scope" /\ calls[2].args = <<s.state, calls[1].ret>>
           /\ calls[3].fn = "compile_probabilistic_cpfs"
           /\ calls[3].args = <<scope0, cell.batch_size>>
           /\ calls[4].fn = "compile_reward"
           /\ \A i \in 1..Len(next) :
                /\ next[i][1] \in DOMAIN scope1
                /\ next[i][1] \notin DOMAIN scope0
                /\ scope1[next[i][1]] = next[i][2]
           /\ \A n \in DOMAIN scope0 : n \in DOMAIN scope1 /\ scope1[n] = scope0[n]
           /\ s.res.output[4] = compile_reward(cell.compiler, scope1).tensor

C4_Witness ==
    /\ last.present /\ last.res.ok
    /\ cell.batch_size >= 1
    /\ \E i \in 1..Len(last.state) :
         CpfsRet(last).next_state_fluents[i][2].val[1][1] # last.state[i].val[1][1]
    /\ last.res.output[4].val[1][1] # 0

\* C5: every tensor of the next_state, action and interm_state components of
\* a step's output is float32, whatever the native type of the fluent or of
\* the policy's action.
C5_AllOutputsFloat32 ==
    \A s \in CompletedSteps :
       \A c \in 1..3 : \A k \in 1..Len(s.res.output[c]) :
          s.res.output[c][k].dtype = "float32"

\* C6: reward_to_go(rewards) has the shape of rewards and is, row by row,
\* the suffix sum: it equals rewards at the last time index, satisfies
\* reward_to_go[t] = rewards[t] + reward_to_go[t+1] below it, and is the
\* row's total at time index 0.
C6_RewardToGoIsSuffixSum ==
    rtg.present =>
       LET q == rtg.tensor.val
           rw == rtg.rewards.val
       IN  /\ DOMAIN q = DOMAIN rw
           /\ \A r \in DOMAIN rw :
                LET H == Len(rw[r])
                IN  /\ Len(q[r]) = H
                    /\ \A t \in 1..H : Len(q[r][t]) = Len(rw[r][t])
                    /\ q[r][H] = rw[r][H]
                    /\ \A t \in 1..(H - 1) : q[r][t][1] = rw[r][t][1] + q[r][t + 1][1]
                    /\ q[r][1][1] = SumSeq([t \in 1..H |-> rw[r][t][1]])

C6_Witness ==
    /\ rtg.present
    /\ cell.batch_size >= 2
    /\ Len(rtg.rewards.val[1]) >= 3
    /\ \A t \in 1..3 : rtg.rewards.val[1][t][1] # 0
    /\ rtg.tensor.val[1] # rtg.tensor.val[2]

\* C7: timesteps(H) is, for every batch row, the countdown H-1, ..., 0; it
\* is channel 0 of inputs, so the cell call at time index t is told that
\* H-1-t steps remain and the last call is told 0.
C7_TimestepsCountDown ==
    /\ tsteps.present =>
         \A r \in Rows(cell.batch_size) :
            /\ Len(tsteps.tensor.val[r]) = tsteps.horizon
            /\ \A t \in 1..tsteps.horizon : tsteps.tensor.val[r][t] = <<tsteps.horizon - t>>
            /\ \A t \in 1..(tsteps.horizon - 1) :
                 tsteps.tensor.val[r][t][1] > tsteps.tensor.val[r][t + 1][1]
    /\ inputs.present =>
         \A r \in Rows(cell.batch_size), t \in 1..inputs.horizon :
            inputs.tensor.val[r][t][1] = tsteps.tensor.val[r][t][1]
    /\ traj.present =>
         \A t \in 1..Len(traj.res.steps), r \in Rows(cell.batch_size) :
            /\ traj.res.steps[t].input.val[r][1] = inputs.horizon - t
            /\ (t = inputs.horizon => traj.res.steps[t].input.val[r][1] = 0)

C7_Witness ==
    /\ traj.present /\ traj.res.ok
    /\ inputs.horizon >= 3
    /\ cell.batch_size >= 2
    /\ traj.res.steps[1].input.val[2][1] = inputs.horizon - 1

\* C8: within one rollout the stop flag is the same at every time index and
\* batch row: 0 everywhere under FULLY_REPARAMETERIZED and 1 everywhere under
\* NOT_REPARAMETERIZED, also in the input of every cell call.
C8_StopFlagsConstant ==
    /\ flags.present =>
         \A r \in Rows(cell.batch_size) :
            /\ Len(flags.tensor.val[r]) = flags.horizon
            /\ \A t \in 1..flags.horizon :
                 flags.tensor.val[r][t] =
                    IF flags.reparam_type = "FULLY_REPARAMETERIZED" THEN <<0>> ELSE <<1>>
    /\ inputs.present =>
         \A r \in Rows(cell.batch_size), t \in 1..inputs.horizon :
            /\ Len(inputs.tensor.val[r][t]) = 2
            /\ inputs.tensor.val[r][t][2] = flags.tensor.val[r][t][1]
    /\ traj.present =>
         \A t \in 1..Len(traj.res.steps), r \in Rows(cell.batch_size) :
            traj.res.steps[t].input.val[r][2] =
               IF inputs.reparam_type = "FULLY_REPARAMETERIZED" THEN 0 ELSE 1

C8_Witness ==
    /\ traj.present /\ traj.res.ok
    /\ inputs.reparam_type = "NOT_REPARAMETERIZED"
    /\ inputs.horizon >= 2
    /\ cell.batch_size >= 2
    /\ traj.res.steps[2].input.val[2][2] = 1

\* C9: output_size is (state_size, action_size, interm_size, 1, 1) with the
\* sizes of the transition model the cell was built with, and a step returns
\* as many next-state, action and intermediate tensors as those sizes list.
C9_OutputSizeMatchesOutputs ==
    /\ output_size(cell) = <<cell.compiler.state_size, cell.compiler.action_size,
                             cell.compiler.interm_size, 1, 1>>
    /\ \A s \in CompletedSteps :
         /\ \A c \in 1..3 : Len(s.res.output[c]) = Len(output_size(cell)[c])
         /\ \A r \in Rows(cell.batch_size) :
              /\ Len(s.res.output[4].val[r]) = output_size(cell)[4]
              /\ Len(s.res.output[5].val[r]) = output_size(cell)[5]

C9_Witness ==
    /\ last.present /\ last.res.ok
    /\ ncalls = MaxCalls
    /\ Len(cell.compiler.interm_size) = 2
    /\ Len(last.res.output[3]) = 2
    /\ Len(last.res.output[2]) = 1

\* C10: a batch size that is zero or negative is rejected at construction,
\* so no initial_state or step computation is ever built for such a cell.
C10_NonPositiveBatchRejected ==
    cell.batch_size <= 0 => (~init.present /\ ~last.present)

\* C11: from_json(compiler, json_config) on valid JSON returns a planner of
\* the class it is called on, holding the given compiler and the decoded
\* configuration; to_json returns the configuration as a JSON string; and
\* from_json(compiler, p.to_json()) has the configuration of p.
C11_FromJsonDecodesToJsonEncodes ==
    /\ from_json_ret.present =>
         /\ from_json_ret.res.ok
         /\ from_json_ret.res.planner.class = from_json_ret.cls
         /\ from_json_ret.res.planner.compiler = from_json_ret.compiler
         /\ from_json_ret.res.planner.config = json_loads(from_json_ret.json_config)
    /\ to_json_ret.present =>
         /\ to_json_ret.ret = PyStr(json_dumps(planner.obj.config))
         /\ LET back == from_json(planner.obj.class, planner.obj.compiler, to_json_ret.ret.value)
            IN  back.ok /\ back.planner.config = planner.obj.config

\* C12: a step call leaves the cell's fields and the caller's state tuple
\* as they were, so after any sequence of calls a call returns what a
\* freshly constructed cell returns for the same input, state and sampled
\* randomness.
C12_StepIsPure ==
    [][(ncalls' # ncalls) =>
          /\ cell' = cell
          /\ init' = init
          /\ last'.state \in ({init.res.state}
                              \cup (IF last.present /\ last.res.ok
                                    THEN {last.res.next_state} ELSE {}))
          /\ last'.res = MRMCell_call(ctor, last'.input, last'.state, last'.noise, last'.fail)]_vars

C12_Witness ==
    /\ ncalls = MaxCalls
    /\ last.present /\ last.res.ok
    /\ last.state = init.res.state
    /\ cell.batch_size = 1
    /\ Len(cell.compiler.state_size) >= 2

\* C13: with an empty list of intermediate fluents (interm_size == ()) a
\* step still succeeds: interm_state is the empty tuple and log_prob is the
\* sum of the next-state fluents' log-probabilities alone.
C13_EmptyIntermStepSucceeds ==
    \A s \in CellCalls :
       (interm_size(cell) = <<>> /\ cell.batch_size >= 1 /\ s.res.calls[3].ret.ok) =>
          /\ s.res.ok
          /\ s.res.output[3] = <<>>
          /\ \A r \in Rows(cell.batch_size) :
               s.res.output[5].val[r] =
                  << SumSeq([i \in 1..Len(CpfsRet(s).next_state_fluents) |->
                               SumSeq(CpfsRet(s).next_state_fluents[i][3].val[r])]) >>

====
